---- MODULE Spec2Model ----
(***************************************************************************)
(* Profile scoring pipeline: ingestion of search results, the scoring      *)
(* queue, label persistence, keyword selection and keyword statistics.     *)
(*                                                                         *)
(* Durable state is the set of committed rows of each table.  Every task   *)
(* works through an ORM session: reads see the committed rows plus the     *)
(* session's own pending rows (PostgreSQL READ COMMITTED), profile objects *)
(* loaded once stay in the session's identity map, and the pending rows    *)
(* become visible to others at commit.  A commit that would break a        *)
(* primary-key or unique constraint declared in models.py raises and the   *)
(* whole session is rolled back.                                           *)
(*                                                                         *)
(* Scores are integers in units of 0.0001 (NUMERIC with 4 decimals).       *)
(***************************************************************************)
EXTENDS Integers, Sequences, FiniteSets, TLC

\* ------------------------------------------------------------------ bounds
MaxSearches == 2        \* search tasks started in a run of the model
MaxBatch == 2           \* profiles returned by one search
MaxPasses == 2          \* labeling passes started in a run of the model
MaxLabels == 2          \* results one labeling call returns
default_batch_size == 2 \* ModelConfig.default_batch_size, scaled down
MaxSelections == 1      \* get_keywords tasks started in a run of the model
MaxCount == 2           \* largest count asked of get_valid_keywords
MaxStats == 2           \* calculate_keyword_stats tasks started in a run of the model
MaxCalls == 2           \* calls of compute_has on one input

\* --------------------------------------------------------------- constants
NULL == "NULL"                        \* Python None / SQL NULL
NoTime == 0                           \* a NULL timestamp column
has_threshold == 6500                 \* PipelineConfig.has_threshold  (0.65)
llm_threshold == 5500                 \* PipelineConfig.llm_threshold  (0.55)
high_quality == 7000                  \* Decimal("0.7") in _get_profile_stats
low_quality == 4000                   \* Decimal("0.4") in _get_profile_stats

Platforms == {"twitter", "bluesky"}   \* db.models.Platform
Keywords == {"k1", "k2", "k3"}            \* the keyword pool (keyword_stats rows)
Workers == {"w1", "w2"}               \* mapped task instances running in parallel
Cursors == {NULL, "c1"}               \* next-page cursors the search API may return
Labelers == {"l1", "l2"}              \* labeling task instances running in parallel
Models == {"claude-haiku-4-5-20251001", "gemini-2.0-flash"}  \* ModelConfig.full_name
Audiences == {"aud.v3", "aud.v4"}     \* PipelineConfig.default_audience over time

\* Profiles as the search API returns them, already scored by process_profiles.
\* p1 is seen with two different sets of signals, so a rediscovery can compute
\* a score that differs from the one stored at first discovery.
ProfA ==
  [rest_id |-> "p1", screen_name |-> "h1", name |-> "n1", description |-> "bio",
   followers_count |-> 10, score |-> 7000, likely_is |-> "Human"]
ProfB ==
  [rest_id |-> "p1", screen_name |-> "h1", name |-> "n1", description |-> "",
   followers_count |-> 20, score |-> 5000, likely_is |-> "Other"]
ProfC ==
  [rest_id |-> "p2", screen_name |-> "h2", name |-> "n2", description |-> "bio",
   followers_count |-> 30, score |-> 8000, likely_is |-> "Creator"]

\* The answers of the search API that are tried: single profiles, one profile
\* twice in a batch, two profiles, and a longer batch.
SearchBatches ==
  { <<ProfA>>, <<ProfB>>, <<ProfC>>, <<ProfB, ProfA>>, <<ProfA, ProfC>>,
    <<ProfC, ProfB, ProfA>> }
Batches == { b \in SearchBatches : Len(b) <= MaxBatch }

VARIABLES
  user_profiles,      \* committed rows of user_profiles
  user_stats,         \* committed rows of user_stats
  api_search_usage,   \* committed rows of api_search_usage
  user_keywords,      \* committed rows of user_keywords
  profiles_to_score,  \* committed rows of profiles_to_score
  profile_scores,     \* committed rows of profile_scores
  clock,              \* wall clock, one tick per task started
  nsearch,            \* search tasks started so far
  npass,              \* labeling passes started so far
  task,               \* per worker: position and locals of its search/store task
  sess,               \* per worker: the open ORM session (identity map, pending rows)
  ltask,              \* per labeler: position and locals of its scoring task
  lsess,              \* per labeler: the ProfileScore objects of its open session
  keyword_stats,      \* committed rows of keyword_stats
  stats_xcom,         \* per keyword: the calculated stats waiting for their upsert task
  selected,           \* the last answer of get_valid_keywords and its arguments
  nselect,            \* get_keywords tasks started so far
  nstat,              \* calculate_keyword_stats tasks started so far
  returned,           \* per labeler: the dict its last scoring task returned
  label_call,         \* a call of label_batch: arguments, provider answer, response
  has_call,           \* calls of compute_has on one input: arguments and results
  cost_call           \* a call of _calculate_cost: arguments and result

tables == <<user_profiles, user_stats, api_search_usage, user_keywords,
            profiles_to_score>>
ingest == <<nsearch, task, sess>>
labeling == <<npass, ltask, lsess>>
stats == <<keyword_stats, stats_xcom, selected, nselect, nstat>>
calls == <<returned, label_call, has_call, cost_call>>
vars == <<user_profiles, user_stats, api_search_usage, user_keywords,
          profiles_to_score, profile_scores, clock, nsearch, npass, task, sess,
          ltask, lsess, keyword_stats, stats_xcom, selected, nselect, nstat,
          returned, label_call, has_call, cost_call>>

\* ------------------------------------------------------------------ helpers
Range(s) == { s[i] : i \in DOMAIN s }

EmptySession ==
  [profiles |-> {}, search |-> {}, keywords |-> {}, stats |-> {}, queue |-> {}]

NoResult ==
  [new_profiles |-> 0, updated_profiles |-> 0, queued_for_scoring |-> 0,
   skipped |-> FALSE, failed |-> FALSE]

IdleTask ==
  [pc |-> "idle", now |-> 0, data |-> <<>>, i |-> 0, new_count |-> 0,
   updated_count |-> 0, queued_count |-> 0, result |-> NoResult]

\* ------------------------------------------------------- pagination tracker
\* The record with the highest page number of a (keyword, platform), as a set
\* that is empty when there is none: query(...).order_by(page.desc()).first().
LatestSearch(rows, keyword, platform) ==
  LET mine == { r \in rows : r.keyword = keyword /\ r.platform = platform }
  IN  { r \in mine : \A o \in mine : o.page <= r.page }

\* The same without the platform filter: order_by(page.desc()).first() over all
\* the records of a keyword.
LatestPage(rows, keyword) ==
  LET mine == { r \in rows : r.keyword = keyword }
  IN  { r \in mine : \A o \in mine : o.page <= r.page }

\* A pagination lookup that always reports a fresh start.
FreshPaginationState(keyword, platform) == { <<NULL, 0>> }

\* get_pagination_state: the <<cursor, page>> pairs the lookup can return, one
\* unless several records of the keyword and platform share the highest page.
get_pagination_state(keyword, platform) ==
  LET latest == LatestSearch(api_search_usage, keyword, platform)
  IN  IF latest = {} THEN { <<NULL, 0>> }
      ELSE { <<l.next_page, l.page + 1>> : l \in latest }

\* ------------------------------------------------------------ search task
\* search_profiles_for_keyword: what the search API may answer.
SearchAnswers(platform) ==
  IF platform # "twitter"
  THEN { [users |-> <<>>, next_cursor |-> NULL] }
  ELSE { [users |-> u, next_cursor |-> c] : u \in Batches \cup {<<>>}, c \in Cursors }

\* search_profiles_task: read the pagination state, skip an exhausted keyword,
\* otherwise search and hand the serialized result to the store task.
SearchProfilesTask(w, keyword, platform) ==
  /\ task[w].pc = "idle"
  /\ nsearch < MaxSearches
  /\ nsearch' = nsearch + 1
  /\ clock' = clock + 1
  /\ \E st \in get_pagination_state(keyword, platform) :
       LET cursor == st[1]
           page == st[2]
       IN  IF cursor = NULL /\ page > 0
           THEN task' = [task EXCEPT ![w] =
                  [IdleTask EXCEPT !.pc = "store", !.now = clock + 1,
                     !.data = [keyword |-> keyword, platform |-> platform,
                               cursor |-> cursor, page |-> page,
                               next_cursor |-> NULL, profiles |-> <<>>,
                               skipped |-> TRUE]]]
           ELSE \E a \in SearchAnswers(platform) :
                  task' = [task EXCEPT ![w] =
                    [IdleTask EXCEPT !.pc = "store", !.now = clock + 1,
                       !.data = [keyword |-> keyword, platform |-> platform,
                                 cursor |-> cursor, page |-> page,
                                 next_cursor |-> a.next_cursor,
                                 profiles |-> a.users, skipped |-> FALSE]]]
  /\ UNCHANGED <<tables, profile_scores, sess, labeling, calls, stats>>

\* ------------------------------------------------------------- store task
\* _count_new_profiles: one session.get per batch entry; a profile that is not
\* stored yet counts once for every time it occurs in the batch.
CountNewProfiles(profiles) ==
  Cardinality({ i \in DOMAIN profiles :
                  \A r \in user_profiles : r.twitter_id # profiles[i].rest_id })

\* The profile rows that _count_new_profiles loads into the identity map.
LoadedByCount(profiles) ==
  { [row |-> r, st |-> "clean", kw |-> FALSE] :
      r \in { x \in user_profiles : \E i \in DOMAIN profiles :
                                       x.twitter_id = profiles[i].rest_id } }

\* _record_search: the ApiSearchUsage row of the batch (id is a fresh uuid4).
SearchRecord(w, new_count) ==
  LET d == task[w].data
  IN  [id |-> <<task[w].now, 0>>, keyword |-> d.keyword, items |-> Len(d.profiles),
       next_page |-> d.next_cursor, page |-> d.page, new_profiles |-> new_count,
       platform |-> d.platform, query_at |-> task[w].now]

\* store_results_task up to the flush in _record_search.  A skipped search and a
\* search without profiles return before store_search_results is called.
StoreBegin(w) ==
  /\ task[w].pc = "store"
  /\ LET d == task[w].data
     IN  IF d.skipped \/ d.profiles = <<>>
         THEN /\ task' = [task EXCEPT ![w] =
                   [IdleTask EXCEPT !.result = [NoResult EXCEPT !.skipped = d.skipped]]]
              /\ UNCHANGED sess
         ELSE LET n == CountNewProfiles(d.profiles)
              IN  /\ task' = [task EXCEPT ![w].pc = "upsert", ![w].i = 1,
                                          ![w].new_count = n]
                  /\ sess' = [sess EXCEPT ![w] =
                       [EmptySession EXCEPT !.profiles = LoadedByCount(d.profiles),
                                            !.search = {SearchRecord(w, n)}]]
  /\ UNCHANGED <<tables, profile_scores, clock, nsearch, labeling, calls, stats>>

\* session.get(UserProfile, id): the identity map first, then a SELECT.
SessionGet(w, id) ==
  LET mine == { e.row : e \in { x \in sess[w].profiles : x.row.twitter_id = id } }
  IN  IF mine # {} THEN mine ELSE { r \in user_profiles : r.twitter_id = id }

\* The row _upsert_profile inserts for a profile that is not stored yet.
NewProfileRow(w, p, keyword) ==
  [twitter_id |-> p.rest_id, handle |-> p.screen_name, name |-> p.name,
   bio |-> p.description, human_score |-> p.score, likely_is |-> p.likely_is,
   got_by_keywords |-> <<keyword>>, platform |-> task[w].data.platform,
   updated_at |-> task[w].now]

\* The keyword merge of _upsert_profile for a stored profile.
MergeKeyword(list, keyword) ==
  IF keyword \in Range(list) THEN list ELSE Append(list, keyword)

\* An update branch that also takes over the newly computed score and class.
RescoredProfileRow(w, existing, keyword) ==
  LET p == task[w].data.profiles[task[w].i]
  IN  [existing EXCEPT !.human_score = p.score, !.likely_is = p.likely_is,
                       !.got_by_keywords = MergeKeyword(@, keyword),
                       !.updated_at = task[w].now]

\* The update branch of _upsert_profile.
UpdatedProfileRow(w, existing, keyword) ==
  [existing EXCEPT !.got_by_keywords = MergeKeyword(existing.got_by_keywords, keyword),
                   !.updated_at = task[w].now]

\* _upsert_profile, the profile part: the identity map after the call.  An entry
\* is the object (row), whether it is pending as an INSERT ("new"), carries
\* changes ("dirty") or neither ("clean"), and whether got_by_keywords was
\* assigned (kw), since the UPDATE writes only the assigned columns.
UpsertProfile(w, p, keyword) ==
  LET found == SessionGet(w, p.rest_id)
      others == { e \in sess[w].profiles : e.row.twitter_id # p.rest_id }
  IN  IF found = {}
      THEN others \cup
             { [row |-> NewProfileRow(w, p, keyword), st |-> "new", kw |-> TRUE] }
      ELSE LET existing == CHOOSE r \in found : TRUE
               was == { x \in sess[w].profiles : x.row.twitter_id = p.rest_id }
           IN  others \cup
                 { [row |-> UpdatedProfileRow(w, existing, keyword),
                    st |-> IF \E e \in was : e.st = "new" THEN "new" ELSE "dirty",
                    kw |-> \/ \E e \in was : e.kw
                           \/ keyword \notin Range(existing.got_by_keywords)] }

\* An association row written without the id of the batch's search record.
MergeUnlinkedKeyword(w, p, keyword, search_id) ==
  sess[w].keywords \cup
    { [id |-> <<task[w].now, task[w].i>>, twitter_id |-> p.rest_id,
       keyword |-> keyword, search_id |-> <<0, 0>>] }

\* _upsert_profile, the association part: session.merge of a UserKeyword whose
\* primary key is a fresh uuid4, so the lookup by primary key never finds a row.
MergeUserKeyword(w, p, keyword, search_id) ==
  LET uk == [id |-> <<task[w].now, task[w].i>>, twitter_id |-> p.rest_id,
             keyword |-> keyword, search_id |-> search_id]
  IN  { r \in sess[w].keywords : r.id # uk.id } \cup {uk}

\* _upsert_stats: session.merge by the primary key twitter_id.
UpsertStats(w, p) ==
  { r \in sess[w].stats : r.twitter_id # p.rest_id } \cup
    { [twitter_id |-> p.rest_id, followers |-> p.followers_count] }

\* A _queue_for_scoring that skips its existence check.
NeverQueued(w, p) == TRUE

\* _queue_for_scoring: TRUE when the profile has no queue entry the session sees.
NotQueued(w, p) ==
  \A r \in profiles_to_score \cup sess[w].queue : r.twitter_id # p.rest_id

QueueEntry(w, p) ==
  [id |-> <<task[w].now, task[w].i>>, twitter_id |-> p.rest_id,
   handle |-> p.screen_name, added_at |-> task[w].now]

\* One iteration of the loop of store_search_results.
UpsertStep(w) ==
  /\ task[w].pc = "upsert"
  /\ LET d == task[w].data
         p == d.profiles[task[w].i]
         search_id == (CHOOSE r \in sess[w].search : TRUE).id
         is_new == SessionGet(w, p.rest_id) = {}
         admit == p.score > has_threshold /\ NotQueued(w, p)
         last == task[w].i = Len(d.profiles)
     IN  /\ sess' = [sess EXCEPT
                ![w].profiles = UpsertProfile(w, p, d.keyword),
                ![w].keywords = MergeUserKeyword(w, p, d.keyword, search_id),
                ![w].stats = UpsertStats(w, p),
                ![w].queue = IF admit THEN @ \cup {QueueEntry(w, p)} ELSE @]
         /\ task' = [task EXCEPT
                ![w].pc = IF last THEN "commit" ELSE "upsert",
                ![w].i = @ + 1,
                ![w].updated_count = IF is_new THEN @ ELSE @ + 1,
                ![w].queued_count = IF admit THEN @ + 1 ELSE @]
  /\ UNCHANGED <<tables, profile_scores, clock, nsearch, labeling, calls, stats>>

\* ------------------------------------------------------------------ commit
\* A user_profiles table without its primary key.
NoProfilePk(w) == FALSE

\* user_profiles.twitter_id is the primary key: an INSERT of a stored id fails.
ProfilePkViolated(w) ==
  \E e \in sess[w].profiles :
    e.st = "new" /\ \E r \in user_profiles : r.twitter_id = e.row.twitter_id

\* profiles_to_score.twitter_id is declared unique.
QueueUniqueViolated(w) ==
  \E q \in sess[w].queue : \E r \in profiles_to_score : r.twitter_id = q.twitter_id

\* The UPDATEs of the session: only the columns the code assigned are written.
ApplyProfileUpdates(w) ==
  LET dirty == { e \in sess[w].profiles : e.st = "dirty" }
      Upd(r) == LET d == { x \in dirty : x.row.twitter_id = r.twitter_id }
                IN  IF d = {} THEN r
                    ELSE LET x == CHOOSE y \in d : TRUE
                         IN  [r EXCEPT
                                !.got_by_keywords =
                                   IF x.kw THEN x.row.got_by_keywords ELSE @,
                                !.updated_at = x.row.updated_at]
  IN  { Upd(r) : r \in user_profiles }

\* A session whose failure leaves the flushed search record behind.
CommitWithoutRollback(w) ==
  /\ task[w].pc = "commit"
  /\ IF ProfilePkViolated(w) \/ QueueUniqueViolated(w)
     THEN /\ task' = [task EXCEPT ![w] = [IdleTask EXCEPT !.result.failed = TRUE]]
          /\ api_search_usage' = api_search_usage \cup sess[w].search
          /\ UNCHANGED <<user_profiles, user_stats, user_keywords, profiles_to_score>>
     ELSE /\ user_profiles' = ApplyProfileUpdates(w) \cup
               { e.row : e \in { x \in sess[w].profiles : x.st = "new" } }
          /\ user_stats' = { r \in user_stats :
                               \A s \in sess[w].stats : s.twitter_id # r.twitter_id }
                             \cup sess[w].stats
          /\ api_search_usage' = api_search_usage \cup sess[w].search
          /\ user_keywords' = user_keywords \cup sess[w].keywords
          /\ profiles_to_score' = profiles_to_score \cup sess[w].queue
          /\ task' = [task EXCEPT ![w] =
               [IdleTask EXCEPT !.result =
                  [new_profiles |-> task[w].new_count,
                   updated_profiles |-> task[w].updated_count,
                   queued_for_scoring |-> task[w].queued_count,
                   skipped |-> FALSE, failed |-> FALSE]]]
  /\ sess' = [sess EXCEPT ![w] = EmptySession]
  /\ UNCHANGED <<profile_scores, clock, nsearch, labeling, calls, stats>>

\* get_session: commit on a normal exit, rollback and re-raise on an exception.
Commit(w) ==
  /\ task[w].pc = "commit"
  /\ IF ProfilePkViolated(w) \/ QueueUniqueViolated(w)
     THEN /\ task' = [task EXCEPT ![w] = [IdleTask EXCEPT !.result.failed = TRUE]]
          /\ UNCHANGED tables
     ELSE /\ user_profiles' = ApplyProfileUpdates(w) \cup
               { e.row : e \in { x \in sess[w].profiles : x.st = "new" } }
          /\ user_stats' = { r \in user_stats :
                               \A s \in sess[w].stats : s.twitter_id # r.twitter_id }
                             \cup sess[w].stats
          /\ api_search_usage' = api_search_usage \cup sess[w].search
          /\ user_keywords' = user_keywords \cup sess[w].keywords
          /\ profiles_to_score' = profiles_to_score \cup sess[w].queue
          /\ task' = [task EXCEPT ![w] =
               [IdleTask EXCEPT !.result =
                  [new_profiles |-> task[w].new_count,
                   updated_profiles |-> task[w].updated_count,
                   queued_for_scoring |-> task[w].queued_count,
                   skipped |-> FALSE, failed |-> FALSE]]]
  /\ sess' = [sess EXCEPT ![w] = EmptySession]
  /\ UNCHANGED <<profile_scores, clock, nsearch, labeling, calls, stats>>

\* ------------------------------------------------------------ scoring task
\* A scoring task that is not running.
IdleLabelTask ==
  [pc |-> "idle", now |-> 0, model |-> NULL, audience |-> NULL, batch |-> <<>>,
   labels |-> <<>>, i |-> 0, stored |-> 0, roll |-> 0,
   input_tokens |-> 0, output_tokens |-> 0, call_cost |-> 0]

\* ModelConfig.probability of the registry, in units of 1e-4.
probability(model) ==
  IF model = "claude-haiku-4-5-20251001" THEN 7000 ELSE 4000

\* The values random.random() can give, in units of 1e-4.
Rolls == { 0, 3999, 4000, 6999, 7000, 9996 }

\* A probability check that also lets the roll equal to the probability pass.
InvokeAtOrBelow(model, roll) == roll <= probability(model)

\* should_invoke_model: the model is invoked when the roll is below its
\* probability.
should_invoke_model(model, roll) == roll < probability(model)

\* f"{roll:.3f}": the roll rounded to three decimals, in units of 1e-3.
RollText(roll) == (roll + 5) \div 10

\* The dict score_with_model_task returns when the probability check fails.
SkippedResult(model, roll) ==
  [model_full_name |-> model, profiles_fetched |-> 0, labels_produced |-> 0, labels_stored |-> 0,
   input_tokens |-> 0, output_tokens |-> 0, call_cost |-> 0, skipped |-> TRUE,
   skip_reason |-> <<"probability_check_failed", RollText(roll)>>]

\* The dict score_with_model_task returns when the fetch is empty.
NoProfilesResult(model) ==
  [model_full_name |-> model, profiles_fetched |-> 0, labels_produced |-> 0, labels_stored |-> 0,
   input_tokens |-> 0, output_tokens |-> 0, call_cost |-> 0, skipped |-> FALSE,
   skip_reason |-> <<"no_profiles_in_queue">>]

\* The dict score_with_model_task returns after scoring a batch.
ScoredResult(t, stored) ==
  [model_full_name |-> t.model, profiles_fetched |-> Len(t.batch), labels_produced |-> Len(t.labels),
   labels_stored |-> stored, input_tokens |-> t.input_tokens,
   output_tokens |-> t.output_tokens, call_cost |-> t.call_cost,
   skipped |-> FALSE, skip_reason |-> <<>>]

\* A candidate query that joins every profile to every queue entry and keeps
\* whatever score, bio, name and labels the profile has.
AllJoined(model) ==
  { [profile |-> x, entry |-> q] : x \in user_profiles, q \in profiles_to_score }

\* _query_unscored_profiles: the queue entries joined to their profile that this
\* model has not scored and that carry a score, a bio and a name worth sending.
Unscored(model) ==
  { j \in { [profile |-> x, entry |-> q] : x \in user_profiles, q \in profiles_to_score } :
      /\ j.entry.twitter_id = j.profile.twitter_id
      /\ \A s \in profile_scores :
           ~(s.scored_by = model /\ s.twitter_id = j.profile.twitter_id)
      /\ j.profile.human_score > llm_threshold
      /\ j.profile.bio # NULL /\ j.profile.bio # ""
      /\ j.profile.name # NULL /\ j.profile.name # "" }

\* ORDER BY random() LIMIT batch_size: every order of every largest admissible
\* selection of the candidates.
RandomBatches(rows, batch_size) ==
  LET n == IF Cardinality(rows) < batch_size THEN Cardinality(rows) ELSE batch_size
  IN  { b \in [1..n -> rows] : \A i, j \in 1..n : i # j => b[i] # b[j] }

\* fetch_profiles_to_score: the dicts handed to the labeler, one per row.
ProfileDict(row) ==
  [twitter_id |-> row.profile.twitter_id, handle |-> row.profile.handle]

\* score_with_model_task up to the fetch: a failed probability check and an
\* empty fetch both end the task.
FetchProfilesToScore(l, model, audience, roll) ==
  /\ ltask[l].pc \in {"idle", "failed"}
  /\ npass < MaxPasses
  /\ npass' = npass + 1
  /\ clock' = clock + 1
  /\ IF ~should_invoke_model(model, roll)
     THEN /\ ltask' = [ltask EXCEPT ![l] = [IdleLabelTask EXCEPT !.roll = roll]]
          /\ returned' = [returned EXCEPT ![l] = { SkippedResult(model, roll) }]
     ELSE \E b \in RandomBatches(Unscored(model), default_batch_size) :
            /\ ltask' = [ltask EXCEPT ![l] =
                 IF b = <<>> THEN [IdleLabelTask EXCEPT !.roll = roll]
                 ELSE [IdleLabelTask EXCEPT !.pc = "label", !.now = clock + 1,
                         !.roll = roll, !.model = model, !.audience = audience,
                         !.batch = [i \in DOMAIN b |-> ProfileDict(b[i])]]]
            /\ returned' = [returned EXCEPT ![l] =
                 IF b = <<>> THEN { NoProfilesResult(model) } ELSE {}]
  /\ UNCHANGED <<tables, profile_scores, ingest, lsess, stats, label_call, has_call, cost_call>>

\* What the model may say about a profile: label and reason.
Verdicts == { <<"True", "match">>, <<"None", "unclear">> }

\* Field(max_length=200) of LabelItem.reason.
max_length == 200

\* len(reason) of the reasons a response can carry.
ReasonLength(reason) ==
  CASE reason = "match" -> 5
    [] reason = "unclear" -> 7
    [] OTHER -> 201

\* Label and reason of the elements a response can carry: the verdicts, a label
\* that is a string and a reason that is too long.
RawVerdicts == Verdicts \cup { <<"yes", "match">>, <<"True", "rambling">> }

\* str.lower on the handles in play.
lower(handle) ==
  CASE handle = "H1" -> "h1"
    [] handle = "H2" -> "h2"
    [] OTHER -> handle

\* The same handle as the model may spell it with other letter case.
Respelled(handle) ==
  CASE handle = "h1" -> "H1"
    [] handle = "H1" -> "h1"
    [] handle = "h2" -> "H2"
    [] handle = "H2" -> "h2"
    [] OTHER -> handle

\* The handles a response can name: those of the batch as sent, the same with
\* other letter case, and one that is in no batch.
RawHandles(profiles) ==
  { profiles[i].handle : i \in DOMAIN profiles } \cup
  { Respelled(profiles[i].handle) : i \in DOMAIN profiles } \cup { "hx" }

\* Where a call of the provider can go wrong.
Faults == { "registry", "prompt", "provider", "not_text", "usage", "cost", "json" }

\* usage_metadata of a response: input and output tokens.
Usages == { <<120, 30>> }

\* The calls that fail at one of the stages.
FailedOutcomes ==
  { [fault |-> f, items |-> <<>>, usage |-> u] : f \in Faults, u \in Usages }

\* What the provider can answer to a batch: a JSON array of at most MaxLabels
\* elements with its token usage, or a failure at one of the stages.
ProviderOutcomes(profiles) ==
  LET items == { [handle |-> h, label |-> v[1], reason |-> v[2]] :
                   h \in RawHandles(profiles), v \in RawVerdicts }
  IN  { [fault |-> "none", items |-> s, usage |-> u] :
          s \in UNION { [1..n -> items] : n \in 0..MaxLabels }, u \in Usages }
      \cup FailedOutcomes

\* The answers made of well-formed elements that name the handles as sent.
CleanOutcomes(profiles) ==
  LET items == { [handle |-> profiles[i].handle, label |-> v[1], reason |-> v[2]] :
                   i \in DOMAIN profiles, v \in Verdicts }
  IN  { [fault |-> "none", items |-> s, usage |-> u] :
          s \in UNION { [1..n -> items] : n \in 0..MaxLabels }, u \in Usages }

\* A validation that accepts every element.
AnyItemValid(item) == TRUE

\* LabelItem.model_validate: label is a boolean or null, reason is a string of
\* at most max_length characters.
LabelItemValid(item) ==
  /\ item.label \in {"True", "False", "None"}
  /\ ReasonLength(item.reason) <= max_length

\* A handle index keyed by the handle as sent.
ExactHandleToId(profiles, handle) ==
  LET at == { i \in DOMAIN profiles : profiles[i].handle = handle }
  IN  { profiles[i].twitter_id : i \in { j \in at : \A k \in at : k <= j } }

\* handle_to_id.get(handle.lower()): the id of the last profile of the batch
\* whose lowercased handle is the lowercased handle, if any.
HandleToId(profiles, handle) ==
  LET at == { i \in DOMAIN profiles : lower(profiles[i].handle) = lower(handle) }
  IN  { profiles[i].twitter_id : i \in { j \in at : \A k \in at : k <= j } }

\* _parse_labels: validate the elements, drop the invalid ones, map the handles
\* of the others to ids and drop those that match no profile.
parse_labels(items, profiles) ==
  LET validated == SelectSeq(items, LabelItemValid)
      Found(item) == HandleToId(profiles, item.handle) # {}
      matched == SelectSeq(validated, Found)
  IN  [i \in DOMAIN matched |->
         [twitter_id |-> CHOOSE id \in HandleToId(profiles, matched[i].handle) : TRUE,
          label |-> matched[i].label, reason |-> matched[i].reason]]

\* ModelConfig.alias of the registry entry with this full name.
ModelAlias(model) ==
  IF model = "claude-haiku-4-5-20251001" THEN "claude-haiku-4.5" ELSE "gemini-flash-2.0"

\* MODEL_PRICING: USD per million input and output tokens, in thousandths.
MODEL_PRICING ==
  [a \in {"claude-haiku-4.5", "claude-sonnet-4.5", "claude-opus-4.5",
           "gemini-flash-2.0", "gemini-flash-1.5", "meta-maverick-17b"} |->
     CASE a = "claude-haiku-4.5" -> <<800, 4000>>
       [] a = "claude-sonnet-4.5" -> <<3000, 15000>>
       [] a = "claude-opus-4.5" -> <<15000, 75000>>
       [] a = "gemini-flash-2.0" -> <<100, 400>>
       [] a = "gemini-flash-1.5" -> <<75, 300>>
       [] a = "meta-maverick-17b" -> <<0, 0>>]

DEFAULT_PRICING == <<1000, 5000>>

\* A price lookup without the default entry: an unlisted alias costs nothing.
ListedPricing(model_alias) ==
  IF model_alias \in DOMAIN MODEL_PRICING THEN MODEL_PRICING[model_alias] ELSE <<0, 0>>

\* MODEL_PRICING.get(model_alias, DEFAULT_PRICING).
Pricing(model_alias) ==
  IF model_alias \in DOMAIN MODEL_PRICING THEN MODEL_PRICING[model_alias]
  ELSE DEFAULT_PRICING

\* _calculate_cost, in units of 1e-9 USD: tokens / 1,000,000 times a price
\* per million in thousandths of a dollar, in exact decimal arithmetic.
calculate_cost(model_alias, input_tokens, output_tokens) ==
  input_tokens * Pricing(model_alias)[1] + output_tokens * Pricing(model_alias)[2]

\* The aliases and token counts _calculate_cost is applied to.
CostAliases == DOMAIN MODEL_PRICING \cup {"unlisted-model"}

TokenCounts == {0, 1, 50, 100, 120, 10000}

\* One call of _calculate_cost on the input under study.
CalculateCost ==
  /\ \E c \in cost_call :
       /\ c.cost = {}
       /\ cost_call' = { [c EXCEPT !.cost =
                            { calculate_cost(c.model_alias, c.input_tokens, c.output_tokens) }] }
  /\ UNCHANGED <<tables, profile_scores, clock, ingest, labeling, stats,
                 returned, label_call, has_call>>

\* empty_response of label_batch.
EmptyResponse(asked, called) ==
  [results |-> <<>>, input_tokens |-> 0, output_tokens |-> 0, call_cost |-> 0,
   raised |-> FALSE, asked_registry |-> asked, called_provider |-> called]

\* A label_batch that goes to the registry and the provider with any batch.
EagerLabelBatch(profiles, model, o) ==
  IF o.fault \in {"registry", "prompt"}
  THEN [EmptyResponse(TRUE, FALSE) EXCEPT !.raised = TRUE]
  ELSE IF o.fault # "none" THEN EmptyResponse(TRUE, TRUE)
  ELSE [results |-> parse_labels(o.items, profiles),
        input_tokens |-> o.usage[1], output_tokens |-> o.usage[2],
        call_cost |-> calculate_cost(ModelAlias(model), o.usage[1], o.usage[2]),
        raised |-> FALSE, asked_registry |-> TRUE, called_provider |-> TRUE]

\* label_batch: an empty batch returns at once; the chat model is fetched and
\* the prompt built outside the try block, so a failure there leaves the
\* function; a failure of the call, of the content type, of the token counts,
\* of the cost or of the parse gives the empty response.
label_batch(profiles, model, o) ==
  IF profiles = <<>> THEN EmptyResponse(FALSE, FALSE)
  ELSE IF o.fault \in {"registry", "prompt"}
  THEN [EmptyResponse(TRUE, FALSE) EXCEPT !.raised = TRUE]
  ELSE IF o.fault # "none" THEN EmptyResponse(TRUE, TRUE)
  ELSE [results |-> parse_labels(o.items, profiles),
        input_tokens |-> o.usage[1], output_tokens |-> o.usage[2],
        call_cost |-> calculate_cost(ModelAlias(model), o.usage[1], o.usage[2]),
        raised |-> FALSE, asked_registry |-> TRUE, called_provider |-> TRUE]

\* score_profiles_with_llm as score_with_model_task calls it: an exception ends
\* the task, no result ends it with its dict, results go to store_label_results.
LabelBatch(l, o) ==
  /\ ltask[l].pc = "label"
  /\ LET r == label_batch(ltask[l].batch, ltask[l].model, o)
         t == [ltask[l] EXCEPT !.labels = r.results,
                               !.input_tokens = r.input_tokens,
                               !.output_tokens = r.output_tokens,
                               !.call_cost = r.call_cost]
     IN  IF r.raised
         THEN /\ ltask' = [ltask EXCEPT ![l] = [IdleLabelTask EXCEPT !.pc = "failed"]]
              /\ returned' = [returned EXCEPT ![l] = {}]
         ELSE IF r.results = <<>>
         THEN /\ ltask' = [ltask EXCEPT ![l] = IdleLabelTask]
              /\ returned' = [returned EXCEPT ![l] = { ScoredResult(t, 0) }]
         ELSE /\ ltask' = [ltask EXCEPT ![l] = [t EXCEPT !.pc = "store", !.i = 1]]
              /\ UNCHANGED returned
  /\ lsess' = [lsess EXCEPT ![l] = {}]
  /\ UNCHANGED <<tables, profile_scores, clock, ingest, npass, stats, label_call, has_call, cost_call>>

\* The profiles a caller of label_batch can pass.
LabelProfiles ==
  { [twitter_id |-> "p1", handle |-> "H1"], [twitter_id |-> "p2", handle |-> "h2"] }

\* The lists of distinct profiles of at most default_batch_size elements.
ProfileLists ==
  UNION { { b \in [1..n -> LabelProfiles] : \A i, j \in 1..n : i # j => b[i] # b[j] } :
            n \in 0..default_batch_size }

\* A call of label_batch on its own: the arguments and the provider's answer
\* wait in label_call, the call leaves its response next to them.
CallLabelBatch ==
  /\ \E c \in label_call :
       /\ c.response = {}
       /\ label_call' =
            { [c EXCEPT !.response = { label_batch(c.profiles, c.model, c.provider) }] }
  /\ UNCHANGED <<tables, profile_scores, clock, ingest, labeling, stats, returned, has_call, cost_call>>

\* The ProfileScore rows a query of the session returns: its own objects, new
\* or modified, and the committed rows it has not touched.
VisibleScores(l) ==
  { e.row : e \in lsess[l] } \cup
  { r \in profile_scores : \A e \in lsess[l] : e.row.id # r.id }

\* An _upsert_label that inserts whatever the query found.
InsertLabel(l, label_result, existing) ==
  LET t == ltask[l]
  IN  lsess[l] \cup
        { [row |-> [id |-> <<t.now, t.i>>, twitter_id |-> label_result.twitter_id,
                    label |-> label_result.label, reason |-> label_result.reason,
                    scored_by |-> t.model, audience |-> t.audience,
                    scored_at |-> t.now],
           st |-> "new"] }

\* An upsert that writes the alias of the model into scored_by.
UpsertLabelByAlias(l, label_result, existing) ==
  LET t == ltask[l]
  IN  IF existing # {}
      THEN LET x == CHOOSE r \in existing : TRUE
               was == { e \in lsess[l] : e.row.id = x.id }
           IN  (lsess[l] \ was) \cup
                 { [row |-> [x EXCEPT !.label = label_result.label,
                                      !.reason = label_result.reason,
                                      !.audience = t.audience,
                                      !.scored_at = t.now],
                    st |-> IF \E e \in was : e.st = "new" THEN "new" ELSE "dirty"] }
      ELSE lsess[l] \cup
             { [row |-> [id |-> <<t.now, t.i>>, twitter_id |-> label_result.twitter_id,
                         label |-> label_result.label, reason |-> label_result.reason,
                         scored_by |-> ModelAlias(t.model), audience |-> t.audience,
                         scored_at |-> t.now],
                st |-> "new"] }

\* _upsert_label: query by (twitter_id, scored_by), then update the row found
\* or add a new one.  The result is the set of objects of the session.
UpsertLabel(l, label_result, existing) ==
  LET t == ltask[l]
  IN  IF existing # {}
      THEN LET x == CHOOSE r \in existing : TRUE
               was == { e \in lsess[l] : e.row.id = x.id }
           IN  (lsess[l] \ was) \cup
                 { [row |-> [x EXCEPT !.label = label_result.label,
                                      !.reason = label_result.reason,
                                      !.audience = t.audience,
                                      !.scored_at = t.now],
                    st |-> IF \E e \in was : e.st = "new" THEN "new" ELSE "dirty"] }
      ELSE lsess[l] \cup
             { [row |-> [id |-> <<t.now, t.i>>, twitter_id |-> label_result.twitter_id,
                         label |-> label_result.label, reason |-> label_result.reason,
                         scored_by |-> t.model, audience |-> t.audience,
                         scored_at |-> t.now],
                st |-> "new"] }

\* One iteration of the loop of store_label_results.  first() takes any of the
\* matching rows.
StoreLabelStep(l) ==
  /\ ltask[l].pc = "store"
  /\ LET t == ltask[l]
         lr == t.labels[t.i]
         matches == { r \in VisibleScores(l) :
                        r.twitter_id = lr.twitter_id /\ r.scored_by = t.model }
     IN  /\ \E existing \in (IF matches = {} THEN {{}} ELSE { {m} : m \in matches }) :
               lsess' = [lsess EXCEPT ![l] = UpsertLabel(l, lr, existing)]
         /\ ltask' = [ltask EXCEPT
                        ![l].pc = IF t.i = Len(t.labels) THEN "commit" ELSE "store",
                        ![l].i = @ + 1,
                        ![l].stored = @ + 1]
  /\ UNCHANGED <<tables, profile_scores, clock, ingest, npass, stats, calls>>

\* A commit of store_label_results that also takes the labeled profiles off
\* the queue.
CommitLabelsAndDequeue(l) ==
  /\ ltask[l].pc = "commit"
  /\ LET new == { e.row : e \in { x \in lsess[l] : x.st = "new" } }
         dirty == { e.row : e \in { x \in lsess[l] : x.st = "dirty" } }
     IN  /\ profile_scores' =
              { r \in profile_scores : \A d \in dirty : d.id # r.id } \cup dirty \cup new
         /\ profiles_to_score' =
              { q \in profiles_to_score :
                  \A r \in dirty \cup new : r.twitter_id # q.twitter_id }
  /\ ltask' = [ltask EXCEPT ![l] = [IdleLabelTask EXCEPT !.stored = ltask[l].stored]]
  /\ lsess' = [lsess EXCEPT ![l] = {}]
  /\ returned' = [returned EXCEPT ![l] = { ScoredResult(ltask[l], ltask[l].stored) }]
  /\ UNCHANGED <<user_profiles, user_stats, api_search_usage, user_keywords, clock,
                 ingest, npass, stats, label_call, has_call, cost_call>>

\* The commit that ends store_label_results: INSERT the new rows, UPDATE the
\* modified ones.  profile_scores declares no constraint besides its uuid key.
CommitLabels(l) ==
  /\ ltask[l].pc = "commit"
  /\ LET new == { e.row : e \in { x \in lsess[l] : x.st = "new" } }
         dirty == { e.row : e \in { x \in lsess[l] : x.st = "dirty" } }
     IN  profile_scores' =
           { r \in profile_scores : \A d \in dirty : d.id # r.id } \cup dirty \cup new
  /\ ltask' = [ltask EXCEPT ![l] = [IdleLabelTask EXCEPT !.stored = ltask[l].stored]]
  /\ lsess' = [lsess EXCEPT ![l] = {}]
  /\ returned' = [returned EXCEPT ![l] = { ScoredResult(ltask[l], ltask[l].stored) }]
  /\ UNCHANGED <<tables, clock, ingest, npass, stats, label_call, has_call, cost_call>>

\* -------------------------------------------------------- keyword selector
\* A keyword_stats row as the column defaults of KeywordStats give it; scores
\* and rates of this table are integers in units of 0.001.
DefaultKeywordStats(keyword) ==
  [keyword |-> keyword, profiles_found |-> 0, avg_human_score |-> 0,
   label_rate |-> 0, still_valid |-> TRUE, pages_searched |-> 0,
   high_quality_count |-> 0, low_quality_count |-> 0,
   first_search_at |-> NoTime, last_search_at |-> NoTime, updated_at |-> 0]

NoSelection ==
  [platform |-> "twitter", count |-> 0, keywords |-> <<>>, exhausted |-> {}]

\* All the orders of the elements of a set.
Orders(S) ==
  LET n == Cardinality(S)
  IN  { f \in [1..n -> S] : \A i, j \in 1..n : i # j => f[i] # f[j] }

\* _fetch_valid_keywords: the keywords marked still_valid, highest average
\* score first; rows with equal averages come in any order.
FetchValidKeywords ==
  LET valid == { r \in keyword_stats : r.still_valid }
      sorted == { f \in Orders(valid) :
                    \A i, j \in DOMAIN f :
                      i < j => f[i].avg_human_score >= f[j].avg_human_score }
  IN  { [i \in DOMAIN f |-> f[i].keyword] : f \in sorted }

\* random.shuffle: any permutation of the list.
Shuffle(list) ==
  { [i \in DOMAIN list |-> list[q[i]]] : q \in Orders(DOMAIN list) }

\* A pagination check that lets every keyword through.
AlwaysAvailable(keyword, platform) == {TRUE}

\* _has_pagination_available: the answers first() can lead to, one unless
\* several records of the keyword and platform share the highest page.
HasPaginationAvailable(keyword, platform) ==
  LET latest == LatestSearch(api_search_usage, keyword, platform)
  IN  IF latest = {} THEN {TRUE} ELSE { r.next_page # NULL : r \in latest }

\* A filter that counts the exhausted keywords it meets toward the limit.
RECURSIVE FilterCountingExhausted(_, _, _, _)
FilterCountingExhausted(keywords, count, platform, got) ==
  IF keywords = <<>> \/ Len(got.keywords) + Cardinality(got.exhausted) >= count
  THEN {got}
  ELSE UNION
    { FilterCountingExhausted(Tail(keywords), count, platform,
        IF a THEN [got EXCEPT !.keywords = Append(@, Head(keywords))]
             ELSE [got EXCEPT !.exhausted = @ \cup {Head(keywords)}]) :
      a \in HasPaginationAvailable(Head(keywords), platform) }

\* _filter_by_pagination: accept greedily up to count; got carries the list
\* selected so far and the keywords logged as exhausted.
RECURSIVE FilterByPagination(_, _, _, _)
FilterByPagination(keywords, count, platform, got) ==
  IF keywords = <<>> \/ Len(got.keywords) >= count
  THEN {got}
  ELSE UNION
    { FilterByPagination(Tail(keywords), count, platform,
        IF a THEN [got EXCEPT !.keywords = Append(@, Head(keywords))]
             ELSE [got EXCEPT !.exhausted = @ \cup {Head(keywords)}]) :
      a \in HasPaginationAvailable(Head(keywords), platform) }

\* get_valid_keywords, as get_keywords_task calls it.
GetValidKeywords(count, platform) ==
  /\ nselect < MaxSelections
  /\ nselect' = nselect + 1
  /\ LET none == [platform |-> platform, count |-> count, keywords |-> <<>>,
                  exhausted |-> {}]
     IN  \E keywords \in FetchValidKeywords :
           IF keywords = <<>>
           THEN selected' = none
           ELSE \E shuffled \in Shuffle(keywords) :
                  selected' \in FilterByPagination(shuffled, count, platform, none)
  /\ UNCHANGED <<tables, profile_scores, clock, ingest, labeling, calls, keyword_stats,
                 stats_xcom, nstat>>

\* ------------------------------------------------- keyword stats aggregator
\* get_all_keywords: the keywords that have a search record.
get_all_keywords == { r.keyword : r \in api_search_usage }

\* The rows of the join of user_keywords and user_profiles for a keyword.
KeywordProfiles(keyword) ==
  { <<uk, p>> \in user_keywords \X user_profiles :
      uk.keyword = keyword /\ p.twitter_id = uk.twitter_id }

RECURSIVE SumScores(_)
SumScores(joined) ==
  IF joined = {} THEN 0
  ELSE LET x == CHOOSE y \in joined : TRUE
       IN  x[2].human_score + SumScores(joined \ {x})

\* _get_profile_stats: counts over the joined rows; the average is kept as the
\* quotient <<sum, rows>>.
ProfileStats(keyword) ==
  LET joined == KeywordProfiles(keyword)
      n == Cardinality(joined)
  IN  [profiles_found |-> n,
       avg_human_score |-> IF n = 0 THEN <<0, 1>> ELSE <<SumScores(joined), n>>,
       high_quality_count |->
         Cardinality({ x \in joined : x[2].human_score > high_quality }),
       low_quality_count |->
         Cardinality({ x \in joined : x[2].human_score < low_quality })]

\* _get_label_stats: counts over the join of profile_scores and user_keywords.
LabelStats(keyword) ==
  LET joined == { <<s, uk>> \in profile_scores \X user_keywords :
                    uk.keyword = keyword /\ uk.twitter_id = s.twitter_id }
  IN  [total_labeled |-> Cardinality({ x \in joined : x[1].label # "None" }),
       true_labels |-> Cardinality({ x \in joined : x[1].label = "True" })]

\* _get_search_stats: max(page), min and max(query_at) of the keyword's records.
SearchStats(keyword) ==
  LET mine == { r \in api_search_usage : r.keyword = keyword }
  IN  IF mine = {}
      THEN [pages_searched |-> 0, first_search_at |-> NoTime,
            last_search_at |-> NoTime]
      ELSE [pages_searched |->
              (CHOOSE r \in mine : \A o \in mine : o.page <= r.page).page,
            first_search_at |->
              (CHOOSE r \in mine : \A o \in mine : r.query_at <= o.query_at).query_at,
            last_search_at |->
              (CHOOSE r \in mine : \A o \in mine : o.query_at <= r.query_at).query_at]

\* A sweep that marks every keyword as still valid.
AlwaysValid(keyword) == {TRUE}

\* _check_pagination_valid: the answers first() can lead to; the records of all
\* platforms are looked at together.
CheckPaginationValid(keyword) ==
  LET latest == LatestPage(api_search_usage, keyword)
  IN  IF latest = {} THEN {TRUE} ELSE { r.next_page # NULL : r \in latest }

\* The KeywordStatData that calculate_keyword_stats returns.
KeywordStatData(keyword, still_valid) ==
  LET ps == ProfileStats(keyword)
      ls == LabelStats(keyword)
      ss == SearchStats(keyword)
  IN  [keyword |-> keyword, profiles_found |-> ps.profiles_found,
       avg_human_score |-> ps.avg_human_score,
       label_rate |-> IF ls.total_labeled > 0
                      THEN <<ls.true_labels, ls.total_labeled>> ELSE <<0, 1>>,
       still_valid |-> still_valid, pages_searched |-> ss.pages_searched,
       high_quality_count |-> ps.high_quality_count,
       low_quality_count |-> ps.low_quality_count,
       first_search_at |-> ss.first_search_at,
       last_search_at |-> ss.last_search_at]

\* calculate_keyword_stats, mapped over the keywords of get_all_keywords; the
\* result travels to the upsert task of the same keyword.
CalculateKeywordStats(keyword) ==
  /\ keyword \in get_all_keywords
  /\ stats_xcom[keyword] = {}
  /\ nstat < MaxStats
  /\ nstat' = nstat + 1
  /\ \E still_valid \in CheckPaginationValid(keyword) :
       stats_xcom' = [stats_xcom EXCEPT
                        ![keyword] = {KeywordStatData(keyword, still_valid)}]
  /\ UNCHANGED <<tables, profile_scores, clock, ingest, labeling, calls, keyword_stats,
                 selected, nselect>>

\* round(x, 3) as a number of thousandths, for x = num / den thousandths.
Round3(num, den) == (2 * num + den) \div (2 * den)

\* Decimal(str(round(stats.avg_human_score, 3))): the average is a quotient of
\* ten-thousandths.
RoundedScore(q) == Round3(q[1], 10 * q[2])

\* Decimal(str(round(stats.label_rate, 3))): the rate is a quotient of counts.
RoundedRate(q) == Round3(1000 * q[1], q[2])

\* _update_existing_stats.
UpdateExistingStats(existing, st, now) ==
  [existing EXCEPT
     !.profiles_found = st.profiles_found,
     !.avg_human_score = RoundedScore(st.avg_human_score),
     !.label_rate = RoundedRate(st.label_rate),
     !.still_valid = st.still_valid,
     !.pages_searched = st.pages_searched,
     !.high_quality_count = st.high_quality_count,
     !.low_quality_count = st.low_quality_count,
     !.first_search_at = IF st.first_search_at # NoTime THEN st.first_search_at ELSE @,
     !.last_search_at = IF st.last_search_at # NoTime THEN st.last_search_at ELSE @,
     !.updated_at = now]

\* _insert_new_stats.
InsertNewStats(st, now) ==
  [keyword |-> st.keyword, profiles_found |-> st.profiles_found,
   avg_human_score |-> RoundedScore(st.avg_human_score),
   label_rate |-> RoundedRate(st.label_rate),
   still_valid |-> st.still_valid, pages_searched |-> st.pages_searched,
   high_quality_count |-> st.high_quality_count,
   low_quality_count |-> st.low_quality_count,
   first_search_at |-> st.first_search_at, last_search_at |-> st.last_search_at,
   updated_at |-> now]

\* upsert_keyword_stats with the stats its calculate task handed over.
UpsertKeywordStats(keyword) ==
  /\ stats_xcom[keyword] # {}
  /\ clock' = clock + 1
  /\ LET st == CHOOSE d \in stats_xcom[keyword] : TRUE
         existing == { r \in keyword_stats : r.keyword = keyword }
     IN  keyword_stats' =
           IF existing # {}
           THEN (keyword_stats \ existing) \cup
                  { UpdateExistingStats(CHOOSE r \in existing : TRUE, st, clock + 1) }
           ELSE keyword_stats \cup { InsertNewStats(st, clock + 1) }
  /\ stats_xcom' = [stats_xcom EXCEPT ![keyword] = {}]
  /\ UNCHANGED <<tables, profile_scores, ingest, labeling, calls, selected, nselect, nstat>>

\* ----------------------------------------------------------- heuristic scorer
\* Scores are in units of 0.0001, as HASResult quantizes them.  A bio is the
\* record of what the scorer reads from the string: whether it is None, its
\* length and its length once stripped; st is the UserStats row.
NoBio == [is_none |-> TRUE, length |-> 0, stripped |-> 0]

compute_bio_score(bio) ==
  IF bio.is_none \/ bio.length = 0 THEN 0
  ELSE IF bio.stripped < 10 THEN 500
  ELSE IF bio.stripped < 50 THEN 1000
  ELSE IF bio.stripped < 100 THEN 1500
  ELSE IF bio.stripped < 160 THEN 2000
  ELSE 2500

\* ratio = followers / following with following 0 read as 1; the comparisons
\* ratio > 10, > 2, > 0.5, > 0.1 are cross-multiplied.
compute_engagement_score(st) ==
  LET followers == st.followers
      following == IF st.following = 0 THEN 1 ELSE st.following
      statuses == st.statuses
      ratio_part == IF followers > 10 * following THEN 2000
                    ELSE IF followers > 2 * following THEN 1500
                    ELSE IF 2 * followers > following THEN 1000
                    ELSE IF 10 * followers > following THEN 500
                    ELSE 0
      activity_part == IF statuses > 1000 THEN 1500
                       ELSE IF statuses > 100 THEN 1000
                       ELSE IF statuses > 10 THEN 500
                       ELSE 0
      score == ratio_part + activity_part
  IN IF score < 3500 THEN score ELSE 3500

compute_account_age_score(st) ==
  LET listed_part == IF st.listed > 100 THEN 1500
                     ELSE IF st.listed > 10 THEN 1000
                     ELSE IF st.listed > 0 THEN 500
                     ELSE 0
      favorites_part == IF st.favorites > 1000 THEN 1000
                        ELSE IF st.favorites > 100 THEN 500
                        ELSE 0
      score == listed_part + favorites_part
  IN IF score < 2500 THEN score ELSE 2500

\* A verification score that gives legacy verification the weight of a
\* whole component and leaves the sum uncapped.
GenerousVerificationScore(st) ==
  (IF st.verified THEN 2500 ELSE 0)
  + (IF st.blue_verified THEN 300 ELSE 0)
  + (IF ~st.default_profile THEN 100 ELSE 0)
  + (IF ~st.default_image THEN 100 ELSE 0)

compute_verification_score(st) ==
  LET score == (IF st.verified THEN 1000 ELSE 0)
               + (IF st.blue_verified THEN 300 ELSE 0)
               + (IF ~st.default_profile THEN 100 ELSE 0)
               + (IF ~st.default_image THEN 100 ELSE 0)
  IN IF score < 1500 THEN score ELSE 1500

\* A classifier that looks at the score bands before the account patterns.
ClassifyByScoreFirst(score, st) ==
  IF score < 3000 THEN "Bot"
  ELSE IF score >= 5500 THEN "Human"
  ELSE IF st.verified /\ st.followers > 10000
          /\ (st.default_profile \/ st.default_image) THEN "Entity"
  ELSE IF st.followers > 1000 /\ st.following > 0
          /\ st.followers > 10 * st.following THEN "Creator"
  ELSE "Other"

classify(score, st) ==
  IF score < 3000 THEN "Bot"
  ELSE IF st.verified /\ st.followers > 10000
          /\ (st.default_profile \/ st.default_image) THEN "Entity"
  ELSE IF st.followers > 1000 /\ st.following > 0
          /\ st.followers > 10 * st.following THEN "Creator"
  ELSE IF score >= 5500 THEN "Human"
  ELSE "Other"

compute_has(st, bio) ==
  LET bio_score == compute_bio_score(bio)
      engagement_score == compute_engagement_score(st)
      account_age_score == compute_account_age_score(st)
      verification_score == compute_verification_score(st)
      sum == bio_score + engagement_score + account_age_score + verification_score
      total == IF sum > 10000 THEN 10000 ELSE IF sum < 0 THEN 0 ELSE sum
  IN [score |-> total,
      likely_is |-> classify(total, st),
      breakdown |-> [bio_score |-> bio_score,
                     engagement_score |-> engagement_score,
                     account_age_score |-> account_age_score,
                     verification_score |-> verification_score]]

\* The inputs the scorer is applied to.
StatsInputs ==
  [followers : {0, 1001, 10001, 50000},
   following : {0, 100, 5000},
   statuses : {0, 101, 1001},
   listed : {0, 101},
   favorites : {0, 1001},
   verified : BOOLEAN,
   blue_verified : BOOLEAN,
   default_profile : BOOLEAN,
   default_image : BOOLEAN]

BioInputs ==
  { NoBio,
    [is_none |-> FALSE, length |-> 0, stripped |-> 0],
    [is_none |-> FALSE, length |-> 3, stripped |-> 0],
    [is_none |-> FALSE, length |-> 10, stripped |-> 10],
    [is_none |-> FALSE, length |-> 120, stripped |-> 99],
    [is_none |-> FALSE, length |-> 160, stripped |-> 160] }

\* One call of compute_has on the input under study; its result joins the
\* results seen for that input.
ComputeHas ==
  /\ \E c \in has_call :
       /\ c.calls < MaxCalls
       /\ has_call' = { [c EXCEPT !.calls = c.calls + 1,
                                  !.results = c.results \cup { compute_has(c.stats, c.bio) }] }
  /\ UNCHANGED <<tables, profile_scores, clock, ingest, labeling, stats,
                 returned, label_call, cost_call>>

\* ---------------------------------------------------------- specifications
Init ==
  /\ user_profiles = {}
  /\ user_stats = {}
  /\ api_search_usage = {}
  /\ user_keywords = {}
  /\ profiles_to_score = {}
  /\ profile_scores = {}
  /\ clock = 0
  /\ nsearch = 0
  /\ npass = 0
  /\ task = [w \in Workers |-> IdleTask]
  /\ sess = [w \in Workers |-> EmptySession]
  /\ ltask = [l \in Labelers |-> IdleLabelTask]
  /\ lsess = [l \in Labelers |-> {}]
  /\ keyword_stats = { DefaultKeywordStats(k) : k \in Keywords }
  /\ stats_xcom = [k \in Keywords |-> {}]
  /\ selected = NoSelection
  /\ nselect = 0
  /\ nstat = 0
  /\ returned = [l \in Labelers |-> {}]
  /\ label_call = {}
  /\ has_call = {}
  /\ cost_call = {}

\* Search and store tasks fan out over the workers and interleave freely.
Next ==
  \E w \in Workers :
    \/ \E k \in Keywords, pf \in Platforms : SearchProfilesTask(w, k, pf)
    \/ StoreBegin(w)
    \/ UpsertStep(w)
    \/ Commit(w)

Spec == Init /\ [][Next]_vars

\* The labeling tasks of one run and of overlapping runs interleave freely.
NextLabel ==
  \E l \in Labelers :
    \/ \E m \in Models, a \in Audiences : FetchProfilesToScore(l, m, a, 0)
    \/ \E o \in CleanOutcomes(ltask[l].batch) : LabelBatch(l, o)
    \/ StoreLabelStep(l)
    \/ CommitLabels(l)

\* The database an earlier run left behind: one committed ingestion of
\* <<ProfA, ProfC>> for "k1" at time 1, both profiles stored and queued,
\* nothing labeled yet.  The counters count the tasks started from here on.
InitSeeded ==
  /\ user_profiles =
       { [twitter_id |-> "p1", handle |-> "h1", name |-> "n1", bio |-> "bio",
          human_score |-> 7000, likely_is |-> "Human", got_by_keywords |-> <<"k1">>,
          platform |-> "twitter", updated_at |-> 1],
         [twitter_id |-> "p2", handle |-> "h2", name |-> "n2", bio |-> "bio",
          human_score |-> 8000, likely_is |-> "Creator", got_by_keywords |-> <<"k1">>,
          platform |-> "twitter", updated_at |-> 1] }
  /\ user_stats = { [twitter_id |-> "p1", followers |-> 10],
                    [twitter_id |-> "p2", followers |-> 30] }
  /\ api_search_usage =
       { [id |-> <<1, 0>>, keyword |-> "k1", items |-> 2, next_page |-> NULL,
          page |-> 0, new_profiles |-> 2, platform |-> "twitter", query_at |-> 1] }
  /\ user_keywords =
       { [id |-> <<1, 1>>, twitter_id |-> "p1", keyword |-> "k1", search_id |-> <<1, 0>>],
         [id |-> <<1, 2>>, twitter_id |-> "p2", keyword |-> "k1", search_id |-> <<1, 0>>] }
  /\ profiles_to_score =
       { [id |-> <<1, 1>>, twitter_id |-> "p1", handle |-> "h1", added_at |-> 1],
         [id |-> <<1, 2>>, twitter_id |-> "p2", handle |-> "h2", added_at |-> 1] }
  /\ profile_scores = {}
  /\ clock = 1
  /\ nsearch = 0
  /\ npass = 0
  /\ task = [w \in Workers |-> IdleTask]
  /\ sess = [w \in Workers |-> EmptySession]
  /\ ltask = [l \in Labelers |-> IdleLabelTask]
  /\ lsess = [l \in Labelers |-> {}]
  /\ keyword_stats = { DefaultKeywordStats(k) : k \in Keywords }
  /\ stats_xcom = [k \in Keywords |-> {}]
  /\ selected = NoSelection
  /\ nselect = 0
  /\ nstat = 0
  /\ returned = [l \in Labelers |-> {}]
  /\ label_call = {}
  /\ has_call = {}
  /\ cost_call = {}

\* Further ingestions over the seeded database: every profile they bring may
\* be a rediscovery.
SpecRediscover == InitSeeded /\ [][Next]_vars

SpecLabel == InitSeeded /\ [][NextLabel]_vars

\* A labeler has its store_label_results session open.
StoreOpen(l) ==
  ltask[l].pc = "commit" \/ (ltask[l].pc = "store" /\ ltask[l].i > 1)

\* The same tasks with the calls of store_label_results one after the other.
NextLabelSeq ==
  \E l \in Labelers :
    \/ \E m \in Models, a \in Audiences : FetchProfilesToScore(l, m, a, 0)
    \/ \E o \in CleanOutcomes(ltask[l].batch) : LabelBatch(l, o)
    \/ (\A o \in Labelers \ {l} : ~StoreOpen(o)) /\ StoreLabelStep(l)
    \/ CommitLabels(l)

SpecLabelSeq == InitSeeded /\ [][NextLabelSeq]_vars

\* Ingestion by one worker at a time together with the keyword selector and
\* the nightly stats sweep.
NextStats ==
  \/ \E w \in {"w1"} :
       \/ \E k \in Keywords, pf \in Platforms : SearchProfilesTask(w, k, pf)
       \/ StoreBegin(w)
       \/ UpsertStep(w)
       \/ Commit(w)
  \/ \E count \in 1..MaxCount, pf \in Platforms : GetValidKeywords(count, pf)
  \/ \E k \in Keywords : CalculateKeywordStats(k)
  \/ \E k \in Keywords : UpsertKeywordStats(k)

SpecStats == Init /\ [][NextStats]_vars

\* label_batch called directly: every list of profiles, every model and every
\* answer of the provider.
InitLabeler ==
  /\ user_profiles = {}
  /\ user_stats = {}
  /\ api_search_usage = {}
  /\ user_keywords = {}
  /\ profiles_to_score = {}
  /\ profile_scores = {}
  /\ clock = 0
  /\ nsearch = 0
  /\ npass = 0
  /\ task = [w \in Workers |-> IdleTask]
  /\ sess = [w \in Workers |-> EmptySession]
  /\ ltask = [l \in Labelers |-> IdleLabelTask]
  /\ lsess = [l \in Labelers |-> {}]
  /\ keyword_stats = { DefaultKeywordStats(k) : k \in Keywords }
  /\ stats_xcom = [k \in Keywords |-> {}]
  /\ selected = NoSelection
  /\ nselect = 0
  /\ nstat = 0
  /\ returned = [l \in Labelers |-> {}]
  /\ has_call = {}
  /\ cost_call = {}
  /\ \E profiles \in ProfileLists, model \in Models :
       \E o \in ProviderOutcomes(profiles) :
         label_call = { [profiles |-> profiles, model |-> model, provider |-> o,
                         response |-> {}] }

SpecLabeler == InitLabeler /\ [][CallLabelBatch]_vars

\* No task of any DAG is under way.
Quiet ==
  /\ \A w \in Workers : task[w].pc = "idle"
  /\ \A l \in Labelers : ltask[l].pc \in {"idle", "failed"}
  /\ \A k \in Keywords : stats_xcom[k] = {}

\* The whole pipeline with its tasks one after the other: ingestion of one
\* keyword on one platform, the scoring task with a roll that passes and one
\* that need not, and the stats sweep of the keyword.
NextPipeline ==
  \/ \E w \in {"w1"} :
       \/ Quiet /\ \E k \in {"k1"}, pf \in {"twitter"} : SearchProfilesTask(w, k, pf)
       \/ StoreBegin(w)
       \/ UpsertStep(w)
       \/ Commit(w)
  \/ \E l \in {"l1"} :
       \/ Quiet /\ \E m \in Models, a \in {"aud.v3"}, roll \in {0, 7000} :
                     FetchProfilesToScore(l, m, a, roll)
       \/ \E o \in CleanOutcomes(ltask[l].batch) \cup FailedOutcomes : LabelBatch(l, o)
       \/ StoreLabelStep(l)
       \/ CommitLabels(l)
  \/ Quiet /\ \E k \in {"k1"} : CalculateKeywordStats(k)
  \/ \E k \in {"k1"} : UpsertKeywordStats(k)

SpecPipeline == Init /\ [][NextPipeline]_vars

\* ------------------------------------------------------------------ claims
\* Two rows that agree in everything but the keyword list and the timestamp.
SameButKeywords(r, n) ==
  [n EXCEPT !.got_by_keywords = r.got_by_keywords, !.updated_at = r.updated_at] = r

IsPrefix(a, b) ==
  Len(a) <= Len(b) /\ \A i \in 1..Len(a) : a[i] = b[i]

NoDuplicates(list) ==
  \A i, j \in DOMAIN list : i # j => list[i] # list[j]

\* A keyword is exhausted on a platform: it has records there and none of the
\* records with the highest page carries a next-page cursor.
ExhaustedOn(keyword, platform) ==
  LET mine == { r \in api_search_usage :
                  r.keyword = keyword /\ r.platform = platform }
  IN  /\ mine # {}
      /\ \A r \in mine : (\A o \in mine : o.page <= r.page) => r.next_page = NULL

\* The exhaustion rule over all the records of a keyword: no record, or a
\* record with the highest page that carries a next-page cursor.
PagesLeft(keyword) ==
  LET mine == { r \in api_search_usage : r.keyword = keyword }
  IN  \/ mine = {}
      \/ \E r \in mine : (\A o \in mine : o.page <= r.page) /\ r.next_page # NULL

\* A keyword has records and a record with the highest page carries no cursor.
LastPageClosed(keyword) ==
  LET mine == { r \in api_search_usage : r.keyword = keyword }
  IN  \E r \in mine : (\A o \in mine : o.page <= r.page) /\ r.next_page = NULL

\* C1: the scoring queue never holds two entries for one profile id; a step of
\* store_search_results for a profile that the session sees in the queue adds
\* no entry and does not count; and queued_for_scoring of a committed call
\* is the number of queue rows that call inserted.
C1_QueueAdmissionIdempotent ==
  [][ /\ \A a, b \in profiles_to_score' : a.twitter_id = b.twitter_id => a = b
      /\ \A w \in Workers :
           (task[w].pc = "upsert" /\ task'[w].i = task[w].i + 1) =>
             LET p == task[w].data.profiles[task[w].i]
             IN  (\E r \in profiles_to_score \cup sess[w].queue :
                     r.twitter_id = p.rest_id) =>
                   /\ sess'[w].queue = sess[w].queue
                   /\ task'[w].queued_count = task[w].queued_count
      /\ \A w \in Workers :
           (task[w].pc = "commit" /\ task'[w].pc = "idle"
              /\ ~task'[w].result.failed) =>
             task'[w].result.queued_for_scoring =
               Cardinality(profiles_to_score' \ profiles_to_score) ]_vars

\* C1 witness: a call is through with a one-profile batch whose profile scores
\* above the threshold and was already queued by an earlier call; it queued
\* nothing and counted nothing.
C1_Witness ==
  \E w \in Workers :
    /\ task[w].pc = "commit"
    /\ Len(task[w].data.profiles) = 1
    /\ task[w].data.profiles[1].score > has_threshold
    /\ \E r \in profiles_to_score :
         r.twitter_id = task[w].data.profiles[1].rest_id
    /\ sess[w].queue = {}
    /\ task[w].queued_count = 0

\* C2: with the calls of store_label_results one after the other there is at
\* most one profile_scores row per (twitter_id, scored_by); a step that finds a
\* row of its pair adds none and leaves that pair with the new label, reason,
\* audience and scored_at.
C2_LabelUpsertOverwrites ==
  [][ /\ \A a, b \in profile_scores' :
           (a.twitter_id = b.twitter_id /\ a.scored_by = b.scored_by) => a = b
      /\ \A l \in Labelers :
           (ltask[l].pc = "store" /\ ltask'[l].i = ltask[l].i + 1) =>
             LET t == ltask[l]
                 lr == t.labels[t.i]
                 Mine(rows) == { r \in rows : r.twitter_id = lr.twitter_id
                                               /\ r.scored_by = t.model }
             IN  Mine(VisibleScores(l)) # {} =>
                   /\ Cardinality(VisibleScores(l)') = Cardinality(VisibleScores(l))
                   /\ \A r \in Mine(VisibleScores(l)') :
                        /\ r.label = lr.label
                        /\ r.reason = lr.reason
                        /\ r.audience = t.audience
                        /\ r.scored_at = t.now ]_vars

\* C2 witness: the only committed row was inserted by one call and overwritten
\* by a later one (its scored_at is not the time of the call that created it),
\* and that later call carried two labels for the profile.
C2_Witness ==
  /\ Cardinality(profile_scores) = 1
  /\ \E r \in profile_scores : r.scored_at # r.id[1]
  /\ \E l \in Labelers : ltask[l].pc = "idle" /\ ltask[l].stored = 2

\* C3: there is at most one user_keywords row per (twitter_id, keyword).
C3_OneAssociationPerPair ==
  \A a, b \in user_keywords :
    (a.twitter_id = b.twitter_id /\ a.keyword = b.keyword) => a = b

\* C4: a get_valid_keywords call never returns a keyword that is exhausted on
\* the platform it was asked for.
C4_NeverSelectsExhausted ==
  [][ nselect' = nselect + 1 =>
        \A k \in Range(selected'.keywords) : ~ExhaustedOn(k, selected'.platform) ]_vars

\* C4 witness: the selector rejected a keyword as exhausted whose keyword_stats
\* row still says still_valid, and returned another one.
C4_Witness ==
  /\ nselect = 1
  /\ selected.keywords # <<>>
  /\ \E k \in selected.exhausted :
       /\ ExhaustedOn(k, selected.platform)
       /\ \E r \in keyword_stats : r.keyword = k /\ r.still_valid

\* C5: whatever the interleaving of concurrent ingestions, no twitter_id has two
\* user_profiles rows or two profiles_to_score rows.
C5_ConcurrentIngestionUnique ==
  /\ \A a, b \in user_profiles : a.twitter_id = b.twitter_id => a = b
  /\ \A a, b \in profiles_to_score : a.twitter_id = b.twitter_id => a = b

\* C5 witness: two ingestions both inserted the same unseen profile; one has
\* committed it and the other one failed at its commit and was rolled back.
C5_Witness ==
  \E w \in Workers :
    /\ task[w].pc = "idle"
    /\ task[w].result.failed
    /\ \E o \in Workers \ {w} :
         /\ task[o].pc = "idle"
         /\ task[o].result.new_profiles > 0
         /\ ~task[o].result.failed
    /\ Cardinality(user_profiles) = 1

\* C6: there is at most one profile_scores row per (twitter_id, scored_by),
\* also when labeling passes overlap.
C6_OneLabelPerPairConcurrent ==
  \A a, b \in profile_scores :
    (a.twitter_id = b.twitter_id /\ a.scored_by = b.scored_by) => a.id = b.id

\* C7: no step changes a stored profile, or the object of a profile in a running
\* ingestion, in anything but got_by_keywords and updated_at.
C7_ScoreStickyOnRediscovery ==
  [][ /\ \A r \in user_profiles : \A n \in user_profiles' :
           n.twitter_id = r.twitter_id => SameButKeywords(r, n)
      /\ \A w \in Workers :
           task[w].pc = "upsert" =>
             \A e \in sess[w].profiles : \A n \in sess'[w].profiles :
               n.row.twitter_id = e.row.twitter_id => SameButKeywords(e.row, n.row) ]_vars

\* C7 witness: p1 was stored with the score and class of its first discovery
\* (0.5, Other), a later committed call rediscovered it with other signals
\* (followers 10, score 0.7) under another keyword, and the row kept 0.5, Other.
C7_Witness ==
  /\ \E r \in user_profiles :
       /\ r.twitter_id = "p1"
       /\ r.human_score = 5000
       /\ r.likely_is = "Other"
       /\ Len(r.got_by_keywords) = 2
  /\ [twitter_id |-> "p1", followers |-> 10] \in user_stats
  /\ \E w \in Workers :
       /\ task[w].pc = "idle"
       /\ task[w].result.updated_profiles = 1
       /\ task[w].result.new_profiles = 0

\* C8: got_by_keywords of a stored profile has no keyword twice, and its value
\* before any step is a prefix of its value after the step.
C8_KeywordListGrowsByAppending ==
  [][ \A r \in user_profiles : \A n \in user_profiles' :
        n.twitter_id = r.twitter_id =>
          /\ NoDuplicates(n.got_by_keywords)
          /\ IsPrefix(r.got_by_keywords, n.got_by_keywords) ]_vars

\* C9: every association row, pending or committed, carries the id of a search
\* record; a session holds that record before it holds the association row,
\* and a committed association row has its record committed.
C9_SearchRecordedBeforeAssociations ==
  [][ /\ \A uk \in user_keywords' :
           \E r \in api_search_usage' : r.id = uk.search_id
      /\ \A w \in Workers :
           \A uk \in sess'[w].keywords \ sess[w].keywords :
             \E r \in sess[w].search : r.id = uk.search_id /\ r.keyword = uk.keyword ]_vars

\* C9 witness: a committed batch with two association rows, both pointing at
\* the batch's committed search record.
C9_Witness ==
  \E r \in api_search_usage :
    Cardinality({ uk \in user_keywords : uk.search_id = r.id }) = 2

\* C10 as stated: in every state the stored still_valid of a keyword equals the
\* exhaustion rule over the keyword's search records.
C10_StillValidAlwaysCurrent ==
  \A r \in keyword_stats : r.still_valid <=> PagesLeft(r.keyword)

\* C10 amended: the still_valid that calculate_keyword_stats computes follows
\* the exhaustion rule over the records committed at that moment, and
\* upsert_keyword_stats stores the value it was handed.
C10_StillValidAsOfSweep ==
  [][ \A k \in Keywords :
        /\ (stats_xcom[k] = {} /\ stats_xcom'[k] # {}) =>
             \A d \in stats_xcom'[k] :
               /\ d.still_valid => PagesLeft(k)
               /\ ~d.still_valid => LastPageClosed(k)
        /\ (stats_xcom[k] # {} /\ stats_xcom'[k] = {}) =>
             \A d \in stats_xcom[k] : \A r \in keyword_stats' :
               r.keyword = k => r.still_valid = d.still_valid ]_vars

\* C10 witness: the sweep has found a keyword exhausted and stored
\* still_valid = FALSE for it.
C10_Witness ==
  \E r \in keyword_stats :
    /\ ~r.still_valid
    /\ ~PagesLeft(r.keyword)
    /\ r.updated_at > 0

\* C13: the <<cursor, page>> a search task works with is <<null, 0>> when the
\* keyword has no record on the platform, and otherwise the next-page cursor of
\* a record with the highest page together with that page plus one.
C13_PaginationStateFromLatestRecord ==
  [][ \A w \in Workers :
        (task[w].pc = "idle" /\ task'[w].pc = "store") =>
          LET d == task'[w].data
              mine == { r \in api_search_usage :
                          r.keyword = d.keyword /\ r.platform = d.platform }
          IN  IF mine = {}
              THEN d.cursor = NULL /\ d.page = 0
              ELSE \E r \in mine :
                     /\ \A o \in mine : o.page <= r.page
                     /\ d.cursor = r.next_page
                     /\ d.page = r.page + 1 ]_vars

\* C13 witness: a search task continues a keyword from the record of page 0:
\* it works with that record's cursor and with page 1.
C13_Witness ==
  \E w \in Workers :
    /\ task[w].pc = "store"
    /\ task[w].data.page = 1
    /\ task[w].data.cursor = "c1"
    /\ \E r \in api_search_usage :
         /\ r.keyword = task[w].data.keyword
         /\ r.platform = task[w].data.platform
         /\ r.page = 0
         /\ r.next_page = "c1"

\* The scoring task of one labeler over the seeded database, with every roll
\* of its probability check.
NextGate ==
  \E l \in {"l1"} :
    \/ \E m \in Models, a \in {"aud.v3"}, roll \in Rolls :
         FetchProfilesToScore(l, m, a, roll)
    \/ \E o \in CleanOutcomes(ltask[l].batch) \cup FailedOutcomes : LabelBatch(l, o)
    \/ StoreLabelStep(l)
    \/ CommitLabels(l)

SpecGate == InitSeeded /\ [][NextGate]_vars

\* Ingestion by the workers, then the stats sweep with no ingestion under way
\* and none after it: between two recomputes nothing else writes.
NextRecompute ==
  \/ \E w \in Workers :
       \/ nstat = 0 /\ \E k \in Keywords, pf \in Platforms : SearchProfilesTask(w, k, pf)
       \/ StoreBegin(w)
       \/ UpsertStep(w)
       \/ Commit(w)
  \/ \E k \in Keywords :
       (\A w \in Workers : task[w].pc = "idle") /\ CalculateKeywordStats(k)
  \/ \E k \in Keywords : UpsertKeywordStats(k)

SpecRecompute == Init /\ [][NextRecompute]_vars

\* One scoring task after the other on the seeded queue, with every answer the
\* provider can give: failures, malformed elements, unknown and respelled
\* handles.
NextRelabel ==
  \E l \in {"l1"} :
    \/ \E m \in Models, a \in {"aud.v3"} : FetchProfilesToScore(l, m, a, 0)
    \/ \E o \in ProviderOutcomes(ltask[l].batch) : LabelBatch(l, o)
    \/ StoreLabelStep(l)
    \/ CommitLabels(l)

SpecRelabel == InitSeeded /\ [][NextRelabel]_vars

\* The heuristic scorer called repeatedly on one input, for every input.
InitHas ==
  /\ user_profiles = {}
  /\ user_stats = {}
  /\ api_search_usage = {}
  /\ user_keywords = {}
  /\ profiles_to_score = {}
  /\ profile_scores = {}
  /\ clock = 0
  /\ nsearch = 0
  /\ npass = 0
  /\ task = [w \in Workers |-> IdleTask]
  /\ sess = [w \in Workers |-> EmptySession]
  /\ ltask = [l \in Labelers |-> IdleLabelTask]
  /\ lsess = [l \in Labelers |-> {}]
  /\ keyword_stats = { DefaultKeywordStats(k) : k \in Keywords }
  /\ stats_xcom = [k \in Keywords |-> {}]
  /\ selected = NoSelection
  /\ nselect = 0
  /\ nstat = 0
  /\ returned = [l \in Labelers |-> {}]
  /\ label_call = {}
  /\ \E s \in StatsInputs, b \in BioInputs :
       has_call = { [stats |-> s, bio |-> b, calls |-> 0, results |-> {}] }
  /\ cost_call = {}

NextHas == ComputeHas

SpecHas == InitHas /\ [][NextHas]_vars

\* The cost function applied to every alias and token count under study.
InitCost ==
  /\ user_profiles = {}
  /\ user_stats = {}
  /\ api_search_usage = {}
  /\ user_keywords = {}
  /\ profiles_to_score = {}
  /\ profile_scores = {}
  /\ clock = 0
  /\ nsearch = 0
  /\ npass = 0
  /\ task = [w \in Workers |-> IdleTask]
  /\ sess = [w \in Workers |-> EmptySession]
  /\ ltask = [l \in Labelers |-> IdleLabelTask]
  /\ lsess = [l \in Labelers |-> {}]
  /\ keyword_stats = { DefaultKeywordStats(k) : k \in Keywords }
  /\ stats_xcom = [k \in Keywords |-> {}]
  /\ selected = NoSelection
  /\ nselect = 0
  /\ nstat = 0
  /\ returned = [l \in Labelers |-> {}]
  /\ label_call = {}
  /\ has_call = {}
  /\ \E a \in CostAliases, i \in TokenCounts, o \in TokenCounts :
       cost_call = { [model_alias |-> a, input_tokens |-> i, output_tokens |-> o, cost |-> {}] }

NextCost == CalculateCost

SpecCost == InitCost /\ [][NextCost]_vars

\* The label_batch calls that have returned or raised.
CompletedCalls == { c \in label_call : c.response # {} }

\* The response of a completed call.
ResponseOf(c) == CHOOSE r \in c.response : TRUE

\* The schema of a response element as the specification words it.
MeetsSchema(item) ==
  /\ item.label \in {"True", "False", "None"}
  /\ ReasonLength(item.reason) <= 200

\* The element names a profile of the list, letter case aside.
NamesProfile(item, profiles) ==
  \E j \in DOMAIN profiles : lower(profiles[j].handle) = lower(item.handle)

\* C14: with a non-empty batch a failure at any stage from the building of the
\* prompt to the cost gives the empty response with zero tokens and zero cost,
\* and no exception leaves label_batch.
C14_FailuresBecomeEmptyResult ==
  \A c \in CompletedCalls :
    (c.profiles # <<>> /\ c.provider.fault \notin {"none", "registry"}) =>
      LET r == ResponseOf(c)
      IN  /\ ~r.raised
          /\ r.results = <<>>
          /\ r.input_tokens = 0
          /\ r.output_tokens = 0
          /\ r.call_cost = 0

\* C15: of a response array label_batch drops exactly the elements that break
\* the schema and returns, in order, a result with the label and the reason of
\* every other element that names a profile of the batch.
C15_InvalidItemsDroppedValidKept ==
  \A c \in CompletedCalls :
    (c.profiles # <<>> /\ c.provider.fault = "none") =>
      LET Kept(item) == MeetsSchema(item) /\ NamesProfile(item, c.profiles)
          kept == SelectSeq(c.provider.items, Kept)
          r == ResponseOf(c)
      IN  /\ ~r.raised
          /\ Len(r.results) = Len(kept)
          /\ \A i \in DOMAIN kept :
               /\ r.results[i].label = kept[i].label
               /\ r.results[i].reason = kept[i].reason

\* C15 witness: a response with one element that breaks the schema and one
\* that does not gave exactly one result.
C15_Witness ==
  \E c \in CompletedCalls :
    /\ Len(c.provider.items) = 2
    /\ \E i, j \in 1..2 :
         /\ ~MeetsSchema(c.provider.items[i])
         /\ MeetsSchema(c.provider.items[j])
         /\ NamesProfile(c.provider.items[j], c.profiles)
    /\ Len(ResponseOf(c).results) = 1

\* C16: every result carries the id of the profile of the batch whose handle is
\* the handle of its response element letter case aside, and an element whose
\* handle is no profile's gives no result.
C16_ResultsCarryMatchedProfileId ==
  \A c \in CompletedCalls :
    LET r == ResponseOf(c)
        Named(item) == NamesProfile(item, c.profiles)
        valid == SelectSeq(c.provider.items, MeetsSchema)
        named == SelectSeq(valid, Named)
    IN  /\ Len(r.results) = (IF c.provider.fault = "none" THEN Len(named) ELSE 0)
        /\ \A i \in DOMAIN r.results :
             \E j \in DOMAIN c.profiles :
               /\ r.results[i].twitter_id = c.profiles[j].twitter_id
               /\ lower(c.profiles[j].handle) = lower(named[i].handle)

\* C16 witness: a response spelled the handle H1 of the batch as h1 and named a
\* handle of no profile; the only result carries the id of the profile H1.
C16_Witness ==
  \E c \in CompletedCalls :
    /\ Len(c.provider.items) = 2
    /\ c.provider.items[1].handle = "hx"
    /\ c.provider.items[2].handle = "h1"
    /\ \E j \in DOMAIN c.profiles : c.profiles[j].handle = "H1"
    /\ Len(ResponseOf(c).results) = 1
    /\ ResponseOf(c).results[1].twitter_id = "p1"

\* C17: label_batch called with no profile returns no result, zero tokens and
\* zero cost, and neither asks the registry for a chat model nor calls the
\* provider.
C17_EmptyBatchMakesNoCall ==
  \A c \in CompletedCalls :
    c.profiles = <<>> =>
      LET r == ResponseOf(c)
      IN  /\ ~r.raised
          /\ r.results = <<>>
          /\ r.input_tokens = 0
          /\ r.output_tokens = 0
          /\ r.call_cost = 0
          /\ ~r.asked_registry
          /\ ~r.called_provider

\* C17 witness: a call with no profile has returned, whatever the provider
\* would have answered or however the registry would have failed.
C17_Witness ==
  \E c \in CompletedCalls :
    /\ c.profiles = <<>>
    /\ c.provider.fault = "registry"

\* The profiles a fetch for the model may return: queued, not labeled by the
\* model, with a stored score above the threshold, a bio and a name.
Eligible(model) ==
  { p \in user_profiles :
      /\ \E q \in profiles_to_score : q.twitter_id = p.twitter_id
      /\ ~\E s \in profile_scores : s.twitter_id = p.twitter_id /\ s.scored_by = model
      /\ p.human_score > 5500
      /\ p.bio \notin {NULL, ""}
      /\ p.name \notin {NULL, ""} }

\* The smaller of two numbers.
Min(a, b) == IF a < b THEN a ELSE b

\* C11: a fetch returns at most batch_size profiles, none twice, each of them
\* queued, without a label of this model, with a stored score above the
\* threshold, a bio and a name; it returns as many of these as the batch size
\* allows, whatever labels other models have stored.
C11_FetchReturnsEligibleUnscored ==
  [][ \A l \in Labelers :
        ( /\ npass' = npass + 1
          /\ <<ltask'[l], returned'[l]>> # <<ltask[l], returned[l]>>
          /\ \A r \in returned'[l] : ~r.skipped ) =>
          LET t == ltask'[l]
              model == IF t.pc = "label" THEN t.model
                       ELSE (CHOOSE r \in returned'[l] : TRUE).model_full_name
          IN  /\ Len(t.batch) <= default_batch_size
              /\ \A i, j \in DOMAIN t.batch :
                   i # j => t.batch[i].twitter_id # t.batch[j].twitter_id
              /\ \A i \in DOMAIN t.batch :
                   \E p \in Eligible(model) : p.twitter_id = t.batch[i].twitter_id
              /\ Len(t.batch) = Min(default_batch_size, Cardinality(Eligible(model))) ]_vars

\* C11 witness: a fetch has returned a profile that another model has labeled
\* and has left out a queued profile whose stored score is not above the
\* threshold.
C11_Witness ==
  \E l \in Labelers :
    /\ ltask[l].pc = "label"
    /\ \E i \in DOMAIN ltask[l].batch :
         \E s \in profile_scores :
           /\ s.twitter_id = ltask[l].batch[i].twitter_id
           /\ s.scored_by # ltask[l].model
    /\ \E q \in profiles_to_score :
         /\ \A i \in DOMAIN ltask[l].batch : ltask[l].batch[i].twitter_id # q.twitter_id
         /\ \E p \in user_profiles :
              p.twitter_id = q.twitter_id /\ p.human_score <= 5500

\* C12: get_valid_keywords returns pairwise distinct keywords that are valid in
\* keyword_stats and not exhausted on the platform, and exactly as many of them
\* as the smaller of count and their number.
C12_ReturnsMinOfCountAndEligible ==
  [][ nselect' = nselect + 1 =>
        LET E == { k \in Keywords :
                     /\ \E r \in keyword_stats : r.keyword = k /\ r.still_valid
                     /\ ~ExhaustedOn(k, selected'.platform) }
        IN  /\ NoDuplicates(selected'.keywords)
            /\ Range(selected'.keywords) \subseteq E
            /\ Len(selected'.keywords) = Min(selected'.count, Cardinality(E)) ]_vars

\* C12 witness: asked for two keywords, the selector met an exhausted keyword,
\* skipped it and still returned two.
C12_Witness ==
  /\ nselect = 1
  /\ selected.count = 2
  /\ Len(selected.keywords) = 2
  /\ \E k \in selected.exhausted : ExhaustedOn(k, selected.platform)

\* C18: a scoring task goes on to the fetch exactly when its roll is below the
\* probability of its model; otherwise it returns a skipped result with the
\* roll to three decimals, zero profiles, tokens and cost, holds no batch and
\* leaves the labels as they are.
C18_ProbabilityGate ==
  [][ \A l \in Labelers :
        ( /\ npass' = npass + 1
          /\ <<ltask'[l], returned'[l]>> # <<ltask[l], returned[l]>> ) =>
          LET t == ltask'[l]
              model == IF t.pc = "label" THEN t.model
                       ELSE (CHOOSE r \in returned'[l] : TRUE).model_full_name
              skipped == \E r \in returned'[l] : r.skipped
          IN  /\ skipped <=> ~(t.roll < probability(model))
              /\ skipped =>
                   /\ \A r \in returned'[l] :
                        /\ r.skip_reason = <<"probability_check_failed", (t.roll + 5) \div 10>>
                        /\ r.profiles_fetched = 0
                        /\ r.labels_produced = 0
                        /\ r.labels_stored = 0
                        /\ r.input_tokens = 0
                        /\ r.output_tokens = 0
                        /\ r.call_cost = 0
                   /\ t.pc = "idle"
                   /\ t.batch = <<>>
                   /\ lsess'[l] = lsess[l]
                   /\ profile_scores' = profile_scores ]_vars

\* C18 witness: gemini-2.0-flash, probability 0.4, was skipped on a roll of
\* 0.6999 that its result records as 0.700, with both seeded profiles waiting.
C18_Witness ==
  \E l \in Labelers :
    /\ ltask[l].pc = "idle"
    /\ ltask[l].roll = 6999
    /\ \E r \in returned[l] :
         /\ r.skipped
         /\ r.model_full_name = "gemini-2.0-flash"
         /\ r.skip_reason[2] = 700
    /\ Eligible("gemini-2.0-flash") # {}

C20_QueuedScoreAboveThreshold ==
  \A q \in profiles_to_score :
    \E p \in user_profiles :
      p.twitter_id = q.twitter_id /\ p.human_score > 6500

\* The ids of the profile rows a step inserts.
InsertedProfiles ==
  { r.twitter_id : r \in user_profiles' } \ { r.twitter_id : r \in user_profiles }

\* C21: when an ingestion commits, the new-profile count of its search record
\* and of its result is the number of profile rows the commit inserts, and
\* lies between 0 and the item count of the batch.
C21_NewProfileCountIsInsertCount ==
  [][ \A w \in Workers :
        (task[w].pc = "commit" /\ task'[w].pc = "idle" /\ ~task'[w].result.failed) =>
          /\ task'[w].result.new_profiles = Cardinality(InsertedProfiles)
          /\ \A s \in sess[w].search :
               /\ s.new_profiles = Cardinality(InsertedProfiles)
               /\ s.new_profiles >= 0
               /\ s.new_profiles <= s.items ]_vars

\* The profiles associated with a keyword, each once.
DistinctProfiles(keyword) ==
  { p \in user_profiles :
      \E uk \in user_keywords : uk.keyword = keyword /\ uk.twitter_id = p.twitter_id }

\* The sum of the stored scores of a set of profiles.
RECURSIVE TotalScore(_)
TotalScore(profiles) ==
  IF profiles = {} THEN 0
  ELSE LET p == CHOOSE x \in profiles : TRUE
       IN  p.human_score + TotalScore(profiles \ {p})

\* C22: the stats calculated for a keyword count its distinct profiles, and
\* average their scores and count the scores above 0.7 and below 0.4 over
\* exactly those profiles.
C22_StatsOverDistinctProfiles ==
  [][ nstat' = nstat + 1 =>
        \A k \in Keywords :
          \A d \in stats_xcom'[k] \ stats_xcom[k] :
            LET profiles == DistinctProfiles(k)
            IN  /\ d.profiles_found = Cardinality(profiles)
                /\ d.avg_human_score[1] * Cardinality(profiles) =
                     TotalScore(profiles) * d.avg_human_score[2]
                /\ d.high_quality_count =
                     Cardinality({ p \in profiles : p.human_score > 7000 })
                /\ d.low_quality_count =
                     Cardinality({ p \in profiles : p.human_score < 4000 }) ]_vars

\* C23: a recompute of a keyword whose row an earlier recompute wrote, with no
\* write in between, leaves the row as it was apart from updated_at, and no
\* keyword ever has two rows.
C23_RecomputeIdempotent ==
  [][ /\ \A a, b \in keyword_stats' : a.keyword = b.keyword => a = b
      /\ \A k \in Keywords :
           (stats_xcom[k] # {} /\ stats_xcom'[k] = {}) =>
             \A old \in { r \in keyword_stats : r.keyword = k /\ r.updated_at # NoTime } :
               \E new \in keyword_stats' :
                 new = [old EXCEPT !.updated_at = new.updated_at] ]_vars

\* The results compute_has has returned, each with the stats it was given.
HasResults ==
  UNION { { [stats |-> c.stats, bio |-> c.bio, result |-> r] : r \in c.results } : c \in has_call }

\* The account patterns of the Entity and Creator rules.
EntityPattern(st) ==
  st.verified /\ st.followers > 10000 /\ (st.default_profile \/ st.default_image)

CreatorPattern(st) ==
  st.followers > 1000 /\ st.following > 0 /\ st.followers > 10 * st.following

\* C24: compute_has classifies by the first matching rule, in the order
\* Bot (score < 0.30), Entity (legacy-verified, more than 10,000 followers,
\* default theme or avatar), Creator (more than 1,000 followers, following
\* above 0, ratio above 10), Human (score >= 0.55), Other.
C24_FirstMatchingRule ==
  \A h \in HasResults :
    LET score == h.result.score
        st == h.stats
    IN /\ score < 3000 => h.result.likely_is = "Bot"
       /\ (score >= 3000 /\ EntityPattern(st)) => h.result.likely_is = "Entity"
       /\ (score >= 3000 /\ ~EntityPattern(st) /\ CreatorPattern(st))
            => h.result.likely_is = "Creator"
       /\ (score >= 5500 /\ ~EntityPattern(st) /\ ~CreatorPattern(st))
            => h.result.likely_is = "Human"
       /\ (score >= 3000 /\ score < 5500 /\ ~EntityPattern(st) /\ ~CreatorPattern(st))
            => h.result.likely_is = "Other"

\* A profile matching the Entity rule with a score of at least 0.55 has been
\* classified.
C24_Witness ==
  \E h \in HasResults :
    /\ h.result.score >= 5500
    /\ EntityPattern(h.stats)
    /\ h.result.likely_is = "Entity"

\* A profile below 0.30 with the Creator pattern has been classified.
C24_BotWitness ==
  \E h \in HasResults :
    /\ h.result.score < 3000
    /\ CreatorPattern(h.stats)
    /\ h.result.likely_is = "Bot"

PricesFor(model_alias) ==
  IF model_alias \in DOMAIN MODEL_PRICING THEN MODEL_PRICING[model_alias]
  ELSE <<1000, 5000>>

\* C26: the cost of a call is input_tokens / 1,000,000 times the input price
\* plus output_tokens / 1,000,000 times the output price, at the prices listed
\* for the alias or at 1.00 / 5.00 when it is not listed; 100 input and 50
\* output tokens at 0.80 / 4.00 cost 0.00028.
C26_CostFromAliasPrices ==
  \A c \in cost_call : \A cost \in c.cost :
    /\ cost = c.input_tokens * PricesFor(c.model_alias)[1]
              + c.output_tokens * PricesFor(c.model_alias)[2]
    /\ (c.input_tokens = 100 /\ c.output_tokens = 50
        /\ PricesFor(c.model_alias) = <<800, 4000>>) => cost = 280000

\* The cost of a call under an unlisted alias with tokens on both sides has
\* been computed.
C26_Witness ==
  \E c \in cost_call :
    /\ c.model_alias \notin DOMAIN MODEL_PRICING
    /\ c.input_tokens = 100 /\ c.output_tokens = 50
    /\ c.cost = {350000}

\* The persisted search records of a keyword on a platform.
RecordsOf(rows, keyword, platform) ==
  { r \in rows : r.keyword = keyword /\ r.platform = platform }

\* C27: for each (keyword, platform), under any interleaving of search and store
\* tasks, the persisted search records have pairwise distinct pages 0, 1, 2, ...
\* without gaps, the record of page n+1 was obtained with the cursor stored in
\* the record of page n, and no record changes once written.
C27_PaginationChain ==
  [][ /\ api_search_usage \subseteq api_search_usage'
      /\ \A k \in Keywords, pf \in Platforms :
           LET mine == RecordsOf(api_search_usage', k, pf)
           IN  /\ \A r, o \in mine : r.page = o.page => r = o
               /\ { r.page : r \in mine } = 0 .. (Cardinality(mine) - 1)
      /\ \A w \in Workers :
           \A r \in api_search_usage' \ api_search_usage :
             (task[w].pc = "commit" /\ task'[w].pc = "idle" /\ r.page > 0)
               => \E p \in RecordsOf(api_search_usage, r.keyword, r.platform) :
                    p.page = r.page - 1 /\ p.next_page = task[w].data.cursor
    ]_vars

\* C28: every search that was executed (not skipped as exhausted) and whose
\* store task ends without failure has exactly one persisted search record,
\* carrying its page and the next-page cursor it returned, also when the search
\* returned no profile.
C28_ExecutedSearchIsRecorded ==
  [][ \A w \in Workers :
        (task[w].pc \in {"store", "commit"} /\ task'[w].pc = "idle"
         /\ ~task[w].data.skipped /\ ~task'[w].result.failed)
          => LET mine == { r \in api_search_usage' : r.id = <<task[w].now, 0>> }
             IN  /\ Cardinality(mine) = 1
                 /\ \A r \in mine :
                      /\ r.keyword = task[w].data.keyword
                      /\ r.platform = task[w].data.platform
                      /\ r.page = task[w].data.page
                      /\ r.next_page = task[w].data.next_cursor
    ]_vars

\* C29: when store_search_results fails, none of its writes remain: the search
\* records, profiles, raw stats, associations and queue rows are those from
\* before the call, and the pagination state of every keyword is unchanged.
C29_FailedStoreLeavesNothing ==
  [][ \A w \in Workers :
        (task[w].pc = "commit" /\ task'[w].pc = "idle" /\ task'[w].result.failed)
          => /\ api_search_usage' = api_search_usage
             /\ user_profiles' = user_profiles
             /\ user_stats' = user_stats
             /\ user_keywords' = user_keywords
             /\ profiles_to_score' = profiles_to_score
             /\ sess'[w] = EmptySession
             /\ \A k \in Keywords, pf \in Platforms :
                  get_pagination_state(k, pf)' = get_pagination_state(k, pf)
    ]_vars

\* A store of a one-profile batch has failed and was rolled back: the tables
\* hold the rows of the other ingestion only.
C29_Witness ==
  \E w \in Workers :
    /\ task[w].pc = "idle"
    /\ task[w].result.failed
    /\ sess[w] = EmptySession
    /\ Cardinality(api_search_usage) = 1
    /\ Cardinality(user_keywords) = 1
    /\ Cardinality(user_stats) = 1

\* The ids of the profiles a fetch for the model may return.
EligibleIds(model) == { p.twitter_id : p \in Eligible(model) }

\* The ids a pass of the scoring task is about to commit labels for.
StoredIds(l) ==
  IF ltask[l].pc = "commit"
  THEN { ltask[l].labels[i].twitter_id : i \in DOMAIN ltask[l].labels }
  ELSE {}

\* C30: once a pass has stored a label for (profile, model M), the profile is
\* no candidate for M any more, the label stays, and no later fetch for M
\* returns the profile; a profile of the batch for which the pass stored
\* nothing is as eligible for M after the pass as it was before.
C30_LabeledNeverRefetched ==
  [][ /\ \A s \in profile_scores : \E n \in profile_scores' :
           n.twitter_id = s.twitter_id /\ n.scored_by = s.scored_by
      /\ \A l \in Labelers, m \in Models :
           /\ (ltask[l].pc = "commit" /\ ltask[l].model = m /\ ltask'[l].pc = "idle")
                => StoredIds(l) \cap EligibleIds(m)' = {}
           /\ (npass' = npass + 1 /\ ltask'[l].pc = "label" /\ ltask'[l].model = m)
                => \A i \in DOMAIN ltask'[l].batch :
                     ~\E s \in profile_scores :
                        s.twitter_id = ltask'[l].batch[i].twitter_id /\ s.scored_by = m
           /\ (ltask[l].pc \in {"label", "commit"} /\ ltask[l].model = m
               /\ ltask'[l].pc \in {"idle", "failed"})
                => \A i \in DOMAIN ltask[l].batch :
                     LET id == ltask[l].batch[i].twitter_id
                     IN  id \notin StoredIds(l)
                           => (id \in EligibleIds(m)' <=> id \in EligibleIds(m))
    ]_vars

\* A first pass fetched two profiles for a model and stored a label for one of
\* them only; the second fetch for the same model returns just the other one.
C30_Witness ==
  \E l \in Labelers :
    /\ npass = 2
    /\ ltask[l].pc = "label"
    /\ Len(ltask[l].batch) = 1
    /\ Cardinality(profile_scores) = 1
    /\ \A s \in profile_scores :
         /\ s.scored_by = ltask[l].model
         /\ s.twitter_id # ltask[l].batch[1].twitter_id

====
